---------------------------- MODULE Spec2Model ----------------------------
(***************************************************************************)
(* Model of nmtg/data/samplers.py: the stateful sampler hierarchy          *)
(* (StatefulSequentialSampler, StatefulRandomSampler,                      *)
(* PreGeneratedBatchSampler, MultiSampler) and its checkpoint protocol.    *)
(*                                                                         *)
(* A sampler object is a record whose fields are the attributes the        *)
(* Python class sets; `kind` stands for the object's class.  Every method  *)
(* is an operator from the object's state (and the call's arguments) to a  *)
(* result record [s, exc, item]: the state the call leaves behind, the     *)
(* exception it raised ("" when it returned) and the value it returned.    *)
(* Python sequences are 0-based; the model stores them as TLA+ sequences   *)
(* and converts at every subscript (PyGet).                                *)
(***************************************************************************)
EXTENDS Integers, Sequences, FiniteSets

(***************************************************************************)
(* Bounds of the model.                                                    *)
(***************************************************************************)
\* largest data source / batch list of a stand-alone sampler
MaxLen == 3
\* largest length of a child of a MultiSampler
MaxChildLen == 2
\* largest total length of the children of a MultiSampler that is
\* checkpointed
MaxTotalLen == 3
\* the numbers of children of the MultiSamplers explored
ChildCounts == {1, 2}
\* how many __next__ calls in a row may fail before the caller stops calling
MaxFails == 2
\* batch size used to pre-generate the batch lists
BatchSize == 2

(***************************************************************************)
(* Python values.                                                          *)
(***************************************************************************)
\* None, and a value that is not None (an attribute that may hold None is a
\* sequence of length at most one)
None == <<>>
Some(v) == <<v>>
IsNone(o) == o = <<>>
Val(o) == o[1]

\* the fill value itertools.zip_longest pads with (None); sample indices are
\* never negative
FillValue == -1

\* seq[i] of Python for a list or a numpy array: negative subscripts count
\* from the end, anything outside -n..n-1 raises IndexError
PyGet(seq, i) ==
    LET n == Len(seq) IN
    IF 0 <= i /\ i < n THEN [ok |-> TRUE, v |-> seq[i + 1]]
    ELSE IF -n <= i /\ i < 0 THEN [ok |-> TRUE, v |-> seq[n + i + 1]]
    ELSE [ok |-> FALSE, v |-> 0]

\* range(n) as a list
Iota(n) == [i \in 1..n |-> i - 1]

\* the values np.random.permutation(n) can return
permutation(n) ==
    {p \in [1..n -> 0..(n - 1)] : \A i, j \in 1..n : p[i] = p[j] => i = j}

\* what a method call leaves behind
Result(s, exc, item) == [s |-> s, exc |-> exc, item |-> item]
Returned(s, item) == Result(s, "", item)
Raised(s, exc) == Result(s, exc, 0)

(***************************************************************************)
(* The methods call each other through the object's class (a MultiSampler  *)
(* calls next(), soft_reset(), ... of whatever its children are).          *)
(***************************************************************************)
RECURSIVE len(_), next(_), reset(_, _), soft_reset(_), state_dict(_), load_state_dict(_, _)
RECURSIVE MultiNextLoop(_, _, _), MultiLoadLoop(_, _, _), Draws(_)
RECURSIVE MultiNextLoopNoWrap(_, _, _)

(***************************************************************************)
(* class StatefulSampler                                                   *)
(***************************************************************************)
\* StatefulSampler.reset
StatefulSamplerReset(s) == [s EXCEPT !.index = -1]

\* StatefulSampler.soft_reset
StatefulSamplerSoftReset(s) == [s EXCEPT !.index = -1]

\* StatefulSampler.state_dict
StatefulSamplerStateDict(s) == [index |-> s.index]

\* StatefulSampler.load_state_dict: a missing key raises KeyError
StatefulSamplerLoadStateDict(s, d) ==
    IF "index" \in DOMAIN d
    THEN Returned([s EXCEPT !.index = d.index], 0)
    ELSE Raised(s, "KeyError")

(***************************************************************************)
(* class StatefulSequentialSampler                                         *)
(***************************************************************************)
\* StatefulSequentialSampler(data_source) with len(data_source) = n
StatefulSequentialSampler(n) == [kind |-> "seq", index |-> -1, length |-> n]

\* mutant: returns the index it had before advancing
SeqNextStale(s) ==
    IF s.index >= s.length - 1
    THEN Raised(s, "StopIteration")
    ELSE Returned([s EXCEPT !.index = s.index + 1], s.index)

\* StatefulSequentialSampler.__next__
SeqNext(s) ==
    IF s.index >= s.length - 1
    THEN Raised(s, "StopIteration")
    ELSE Returned([s EXCEPT !.index = s.index + 1], s.index + 1)

(***************************************************************************)
(* class StatefulRandomSampler                                             *)
(***************************************************************************)
\* mutant: draws the permutation without calling super().reset()
RndResetKeepsIndex(s, p) == [s EXCEPT !.order = p]

\* StatefulRandomSampler.reset, the permutation drawn being p
RndReset(s, p) == [StatefulSamplerReset(s) EXCEPT !.order = p]

\* StatefulRandomSampler(data_source), the permutation drawn being p
StatefulRandomSampler(n, p) ==
    RndReset([kind |-> "rnd", index |-> -1, length |-> n, order |-> <<>>], p)

\* StatefulRandomSampler.__next__
RndNext(s) ==
    IF s.index >= s.length - 1
    THEN Raised(s, "StopIteration")
    ELSE LET s1 == [s EXCEPT !.index = s.index + 1]
             got == PyGet(s1.order, s1.index)
         IN  IF got.ok THEN Returned(s1, got.v) ELSE Raised(s1, "IndexError")

\* StatefulRandomSampler.state_dict
RndStateDict(s) == [index |-> s.index, order |-> s.order]

\* mutant: restores the index and keeps the order it has
RndLoadStateDictIndexOnly(s, d) == StatefulSamplerLoadStateDict(s, d)

\* StatefulRandomSampler.load_state_dict
RndLoadStateDict(s, d) ==
    LET r == StatefulSamplerLoadStateDict(s, d) IN
    IF r.exc # "" THEN r
    ELSE IF "order" \in DOMAIN d
    THEN Returned([r.s EXCEPT !.order = d.order], 0)
    ELSE Raised(r.s, "KeyError")

(***************************************************************************)
(* class PreGeneratedBatchSampler                                          *)
(***************************************************************************)
\* PreGeneratedBatchSampler.reset, the permutation drawn (if any) being p
PgbReset(s, p) ==
    LET s1 == StatefulSamplerReset(s) IN
    IF s1.shuffle THEN [s1 EXCEPT !.batch_order = Some(p)] ELSE s1

\* PreGeneratedBatchSampler(batches, shuffle)
PreGeneratedBatchSampler(batches, shuffle, p) ==
    PgbReset([kind |-> "pgb", index |-> -1, batches |-> batches,
              shuffle |-> shuffle, batch_order |-> None], p)

\* PreGeneratedBatchSampler.state_dict
PgbStateDict(s) == [index |-> s.index, batch_order |-> s.batch_order]

\* int(index / saved * current): float division, truncation towards zero.
\* For operands up to 8 the double-precision result truncates to the same
\* integer as the exact quotient (enumerated), so the quotient is exact here.
RescaleIndex(index, saved, current) ==
    LET num == index * current IN
    IF num >= 0 THEN num \div saved ELSE -((-num) \div saved)

\* mutant: leaves the shuffle flag as it was
PgbLoadStateDictKeepsShuffle(s, d) ==
    IF "batch_order" \notin DOMAIN d THEN Raised(s, "KeyError")
    ELSE IF \/ IsNone(s.batch_order)
            \/ IsNone(d.batch_order)
            \/ Len(Val(d.batch_order)) = Len(Val(s.batch_order))
    THEN LET s1 == [s EXCEPT !.batch_order = d.batch_order] IN
         IF "index" \notin DOMAIN d THEN Raised(s1, "KeyError")
         ELSE Returned([s1 EXCEPT !.index = d.index], 0)
    ELSE IF "index" \notin DOMAIN d THEN Raised(s, "KeyError")
    ELSE IF Len(Val(d.batch_order)) = 0 THEN Raised(s, "ZeroDivisionError")
    ELSE Returned([s EXCEPT !.index = RescaleIndex(d.index, Len(Val(d.batch_order)),
                                                  Len(Val(s.batch_order)))], 0)

\* PreGeneratedBatchSampler.load_state_dict
PgbLoadStateDict(s, d) ==
    IF IsNone(s.batch_order) \/ "batch_order" \notin DOMAIN d
    THEN \* the condition short-circuits, or its second operand raises
         IF "batch_order" \notin DOMAIN d THEN Raised(s, "KeyError")
         ELSE LET s1 == [s EXCEPT !.batch_order = d.batch_order] IN
              IF "index" \notin DOMAIN d THEN Raised(s1, "KeyError")
              ELSE Returned([s1 EXCEPT !.index = d.index,
                                       !.shuffle = ~IsNone(s1.batch_order)], 0)
    ELSE IF IsNone(d.batch_order) \/ Len(Val(d.batch_order)) = Len(Val(s.batch_order))
    THEN LET s1 == [s EXCEPT !.batch_order = d.batch_order] IN
         IF "index" \notin DOMAIN d THEN Raised(s1, "KeyError")
         ELSE Returned([s1 EXCEPT !.index = d.index,
                                  !.shuffle = ~IsNone(s1.batch_order)], 0)
    ELSE IF "index" \notin DOMAIN d THEN Raised(s, "KeyError")
    ELSE IF Len(Val(d.batch_order)) = 0 THEN Raised(s, "ZeroDivisionError")
    ELSE Returned([s EXCEPT !.index = RescaleIndex(d.index, Len(Val(d.batch_order)),
                                                  Len(Val(s.batch_order))),
                            !.shuffle = TRUE], 0)

\* PreGeneratedBatchSampler.__len__
PgbLen(s) == Len(s.batches)

\* mutant: advances the index before it tests for the end
PgbNextAdvancesFirst(s) ==
    LET s1 == [s EXCEPT !.index = s.index + 1] IN
    IF s.index >= Len(s.batches) - 1
    THEN Raised(s1, "StopIteration")
    ELSE LET b == PyGet(s1.batches,
                        IF s1.shuffle THEN Val(s1.batch_order)[s1.index + 1] ELSE s1.index)
         IN  IF b.ok THEN Returned(s1, b.v) ELSE Raised(s1, "IndexError")

\* PreGeneratedBatchSampler.__next__
PgbNext(s) ==
    IF s.index >= Len(s.batches) - 1
    THEN Raised(s, "StopIteration")
    ELSE LET s1 == [s EXCEPT !.index = s.index + 1] IN
         IF s1.shuffle
         THEN IF IsNone(s1.batch_order) THEN Raised(s1, "TypeError")
              ELSE LET o == PyGet(Val(s1.batch_order), s1.index) IN
                   IF ~o.ok THEN Raised(s1, "IndexError")
                   ELSE LET b == PyGet(s1.batches, o.v) IN
                        IF b.ok THEN Returned(s1, b.v) ELSE Raised(s1, "IndexError")
         ELSE LET b == PyGet(s1.batches, s1.index) IN
              IF b.ok THEN Returned(s1, b.v) ELSE Raised(s1, "IndexError")

(***************************************************************************)
(* class StatefulBatchSampler                                              *)
(***************************************************************************)
\* the batches BatchSampler(sampler, batch_size, drop_last) yields when the
\* sampler yields `items`: consecutive groups of batch_size, the last one
\* shorter, or dropped
BatchSamplerBatches(items, batch_size, drop_last) ==
    LET n == Len(items)
        full == n \div batch_size
        count == IF drop_last \/ n % batch_size = 0 THEN full ELSE full + 1
    IN  [j \in 1..count |->
            SubSeq(items, (j - 1) * batch_size + 1,
                   IF j * batch_size <= n THEN j * batch_size ELSE n)]

(***************************************************************************)
(* class MultiSampler                                                      *)
(***************************************************************************)
\* max(range(len(samplers)), key=lambda i: len(samplers[i])): the first
\* child of maximal length (as a position of the TLA+ sequence)
Longest(samplers) ==
    CHOOSE i \in 1..Len(samplers) :
        /\ \A j \in 1..Len(samplers) : len(samplers[j]) <= len(samplers[i])
        /\ \A j \in 1..(i - 1) : len(samplers[j]) < len(samplers[i])

\* MultiSampler(*samplers)
MultiSampler(samplers) ==
    [kind |-> "multi", index |-> -1, samplers |-> samplers,
     longest |-> Longest(samplers)]

\* isinstance(item, Sequence) for an item the sampler s yielded: batches and
\* combined items are lists, the indices of the other samplers are numbers
YieldsSequence(s) == s.kind \in {"pgb", "multi"}

\* mutant: list(zip(*res)), which stops at the shortest sequence
ZipShortest(res) ==
    LET width == IF Len(res) = 0 THEN 0
                 ELSE CHOOSE w \in {Len(res[i]) : i \in 1..Len(res)} :
                          \A i \in 1..Len(res) : Len(res[i]) >= w
    IN  [j \in 1..width |-> [i \in 1..Len(res) |-> res[i][j]]]

\* list(itertools.zip_longest(*res)) for a list res of sequences
ZipLongest(res) ==
    LET width == IF Len(res) = 0 THEN 0
                 ELSE CHOOSE w \in {Len(res[i]) : i \in 1..Len(res)} :
                          \A i \in 1..Len(res) : Len(res[i]) <= w
    IN  [j \in 1..width |->
            [i \in 1..Len(res) |-> IF j <= Len(res[i]) THEN res[i][j] ELSE FillValue]]

\* mutant: a StopIteration of any child ends the pass
MultiNextLoopNoWrap(s, i, res) ==
    IF i > Len(s.samplers) THEN Returned(s, res)
    ELSE LET r == next(s.samplers[i]) IN
         IF r.exc = ""
         THEN MultiNextLoopNoWrap([s EXCEPT !.samplers[i] = r.s], i + 1,
                                  Append(res, r.item))
         ELSE Raised([s EXCEPT !.samplers[i] = r.s], r.exc)

\* the for loop of MultiSampler.__next__ from child i on, res being the
\* items collected so far
MultiNextLoop(s, i, res) ==
    IF i > Len(s.samplers) THEN Returned(s, res)
    ELSE LET r == next(s.samplers[i]) IN
         IF r.exc = ""
         THEN MultiNextLoop([s EXCEPT !.samplers[i] = r.s], i + 1, Append(res, r.item))
         ELSE IF r.exc # "StopIteration" \/ i = s.longest
         THEN Raised([s EXCEPT !.samplers[i] = r.s], r.exc)
         ELSE LET again == next(soft_reset(r.s)) IN
              IF again.exc = ""
              THEN MultiNextLoop([s EXCEPT !.samplers[i] = again.s], i + 1,
                                 Append(res, again.item))
              ELSE Raised([s EXCEPT !.samplers[i] = again.s], again.exc)

\* MultiSampler.__next__
MultiNext(s) ==
    LET r == MultiNextLoop([s EXCEPT !.index = s.index + 1], 1, <<>>) IN
    IF r.exc # "" THEN r
    ELSE IF YieldsSequence(s.samplers[1])
    THEN IF \A i \in 1..Len(s.samplers) : YieldsSequence(s.samplers[i])
         THEN Returned(r.s, ZipLongest(r.item))
         ELSE Raised(r.s, "TypeError")  \* zip_longest over a number
    ELSE r

\* MultiSampler.__len__
MultiLen(s) == len(s.samplers[s.longest])

\* MultiSampler.reset, child i drawing draws[i]
MultiReset(s, draws) ==
    [StatefulSamplerReset(s) EXCEPT
        !.samplers = [i \in 1..Len(s.samplers) |-> reset(s.samplers[i], draws[i])]]

\* mutant: restarts its own counter and leaves the children where they are
MultiSoftResetOwnOnly(s) == StatefulSamplerSoftReset(s)

\* MultiSampler.soft_reset
MultiSoftReset(s) ==
    [StatefulSamplerSoftReset(s) EXCEPT
        !.samplers = [i \in 1..Len(s.samplers) |-> soft_reset(s.samplers[i])]]

\* MultiSampler.state_dict
MultiStateDict(s) ==
    [index |-> s.index,
     samplers |-> [i \in 1..Len(s.samplers) |-> state_dict(s.samplers[i])]]

\* the for loop of MultiSampler.load_state_dict over zip(samplers, dicts),
\* from pair i on
MultiLoadLoop(s, dicts, i) ==
    IF i > Len(s.samplers) \/ i > Len(dicts) THEN Returned(s, 0)
    ELSE LET r == load_state_dict(s.samplers[i], dicts[i]) IN
         IF r.exc # "" THEN Raised([s EXCEPT !.samplers[i] = r.s], r.exc)
         ELSE MultiLoadLoop([s EXCEPT !.samplers[i] = r.s], dicts, i + 1)

\* mutant: restores the children and leaves its own counter where it is
MultiLoadStateDictChildrenOnly(s, d) ==
    IF "index" \notin DOMAIN d \/ "samplers" \notin DOMAIN d THEN Raised(s, "KeyError")
    ELSE MultiLoadLoop(s, d.samplers, 1)

\* MultiSampler.load_state_dict
MultiLoadStateDict(s, d) ==
    LET r == StatefulSamplerLoadStateDict(s, d) IN
    IF r.exc # "" THEN r
    ELSE IF "samplers" \notin DOMAIN d THEN Raised(r.s, "KeyError")
    ELSE MultiLoadLoop(r.s, d.samplers, 1)

(***************************************************************************)
(* Method dispatch on the object's class.                                  *)
(***************************************************************************)
\* len(s)
len(s) ==
    CASE s.kind = "seq" -> s.length
      [] s.kind = "rnd" -> s.length
      [] s.kind = "pgb" -> PgbLen(s)
      [] s.kind = "multi" -> MultiLen(s)

\* next(s)
next(s) ==
    CASE s.kind = "seq" -> SeqNext(s)
      [] s.kind = "rnd" -> RndNext(s)
      [] s.kind = "pgb" -> PgbNext(s)
      [] s.kind = "multi" -> MultiNext(s)

\* s.reset(), `draw` being what np.random.permutation returns during the call
reset(s, draw) ==
    CASE s.kind = "seq" -> StatefulSamplerReset(s)
      [] s.kind = "rnd" -> RndReset(s, draw)
      [] s.kind = "pgb" -> PgbReset(s, draw)
      [] s.kind = "multi" -> MultiReset(s, draw)

\* s.soft_reset()
soft_reset(s) ==
    CASE s.kind = "multi" -> MultiSoftReset(s)
      [] OTHER -> StatefulSamplerSoftReset(s)

\* s.state_dict()
state_dict(s) ==
    CASE s.kind = "seq" -> StatefulSamplerStateDict(s)
      [] s.kind = "rnd" -> RndStateDict(s)
      [] s.kind = "pgb" -> PgbStateDict(s)
      [] s.kind = "multi" -> MultiStateDict(s)

\* s.load_state_dict(d)
load_state_dict(s, d) ==
    CASE s.kind = "seq" -> StatefulSamplerLoadStateDict(s, d)
      [] s.kind = "rnd" -> RndLoadStateDict(s, d)
      [] s.kind = "pgb" -> PgbLoadStateDict(s, d)
      [] s.kind = "multi" -> MultiLoadStateDict(s, d)

\* what the random source can hand out during s.reset(): a permutation for a
\* sampler that draws one, one draw per child for a MultiSampler
Draws(s) ==
    CASE s.kind = "seq" -> {<<>>}
      [] s.kind = "rnd" -> permutation(s.length)
      [] s.kind = "pgb" -> IF s.shuffle THEN permutation(Len(s.batches)) ELSE {<<>>}
      [] s.kind = "multi" ->
            LET n == Len(s.samplers)
                all == UNION {Draws(s.samplers[i]) : i \in 1..n}
            IN  {f \in [1..n -> all] : \A i \in 1..n : f[i] \in Draws(s.samplers[i])}

(***************************************************************************)
(* The caller: one sampler object, driven through its public methods.      *)
(***************************************************************************)
VARIABLES
    sampler,    \* the sampler object the training loop owns
    last,       \* the last call that can change the sampler: its method, its
                \* exception and, for __next__, the index before it
    fails,      \* how many __next__ calls in a row have raised
    out,        \* the items returned since the pass began
    prevPass,   \* the pass a soft_reset() ended: its items, and whether it
                \* had run into StopIteration
    drawn,      \* the orders the sampler held when it was constructed,
                \* last reset or last restored
    saved,      \* the snapshot the caller keeps (None before the first one)
    expected,   \* what an uninterrupted run yields from the state `saved` is of
    replaying,  \* `saved` was loaded and the sampler only advanced since
    replay,     \* the items returned since `saved` was loaded
    donor,      \* the sampler of an earlier run `saved` was taken of,
                \* whether it was loaded right after construction, and the
                \* kind of order the sampler held before
    built,      \* the StatefulBatchSampler construction `sampler` came from:
                \* the index sampler as it was passed in and the arguments
    savedOut    \* the items of the pass that `saved` was taken in

objVars == <<sampler, last, fails>>
passVars == <<out, prevPass>>
ckVars == <<saved, expected, replaying, replay>>
histVars == <<donor, built, savedOut>>
vars == <<sampler, last, fails, out, prevPass, drawn, saved, expected, replaying, replay,
          donor, built, savedOut>>

\* the batch list of n batches the stand-alone batch samplers are built on:
\* consecutive indices grouped by BatchSize, the last batch holding one index
PgbBatches(n) ==
    BatchSamplerBatches(Iota(IF n = 0 THEN 0 ELSE BatchSize * (n - 1) + 1),
                        BatchSize, FALSE)

\* the freshly constructed samplers of length at most m that yield indices
IndexLeaves(m) ==
    {StatefulSequentialSampler(n) : n \in 0..m}
    \cup UNION {{StatefulRandomSampler(n, p) : p \in permutation(n)} : n \in 0..m}

\* the freshly constructed samplers of at most m batches that yield batches
BatchLeaves(m) ==
    {PreGeneratedBatchSampler(PgbBatches(n), FALSE, <<>>) : n \in 0..m}
    \cup UNION {{PreGeneratedBatchSampler(PgbBatches(n), TRUE, p) : p \in permutation(n)}
                    : n \in 0..m}

Leaves(m) == IndexLeaves(m) \cup BatchLeaves(m)

\* the freshly constructed MultiSamplers: over index samplers, or over batch
\* samplers
Multis ==
    UNION {{MultiSampler(c) : c \in [1..k -> IndexLeaves(MaxChildLen)]}
             \cup {MultiSampler(c) : c \in [1..k -> BatchLeaves(MaxChildLen)]}
           : k \in ChildCounts}

\* the items an uninterrupted run of __next__ calls returns from state s on,
\* up to the first exception
RECURSIVE Drain(_)
Drain(s) ==
    LET r == next(s) IN
    IF r.exc # "" THEN <<>> ELSE <<r.item>> \o Drain(r.s)

\* the materialized randomness of s: its order, its batch order, or those of
\* its children
RECURSIVE Orders(_)
Orders(s) ==
    CASE s.kind = "seq" -> None
      [] s.kind = "rnd" -> Some(s.order)
      [] s.kind = "pgb" -> s.batch_order
      [] s.kind = "multi" -> [i \in 1..Len(s.samplers) |-> Orders(s.samplers[i])]

Call(op, exc) ==
    [op |-> op, exc |-> exc, before |-> IF op = "next" THEN sampler.index ELSE -1]

InitHistory ==
    /\ last = [op |-> "__init__", exc |-> "", before |-> -1]
    /\ fails = 0
    /\ out = <<>>
    /\ prevPass = None
    /\ drawn = Orders(sampler)
    /\ saved = None
    /\ expected = <<>>
    /\ replaying = FALSE
    /\ replay = <<>>
    /\ donor = None
    /\ built = None
    /\ savedOut = <<>>

Init ==
    /\ sampler \in Leaves(MaxLen) \cup Multis
    /\ InitHistory

\* the caller gives up after MaxFails failures in a row, and stops advancing
\* a cursor that is MaxFails past the end
MayCallNext ==
    /\ fails < MaxFails
    /\ sampler.index < len(sampler) + MaxFails - 1

\* the object's part of a call whose result is r
Does(op, r) ==
    /\ sampler' = r.s
    /\ last' = Call(op, r.exc)
    /\ fails' = IF op = "next" /\ r.exc # "" THEN fails + 1 ELSE 0

(***************************************************************************)
(* Passes: the caller advances, resets and soft-resets the sampler.        *)
(***************************************************************************)
\* next(sampler)
DoNext ==
    /\ MayCallNext
    /\ LET r == next(sampler) IN
       /\ Does("next", r)
       /\ out' = IF r.exc = "" THEN Append(out, r.item) ELSE out
    /\ UNCHANGED <<prevPass, drawn>>
    /\ UNCHANGED ckVars
    /\ UNCHANGED histVars

\* sampler.reset()
DoReset ==
    /\ \E draw \in Draws(sampler) : Does("reset", Returned(reset(sampler, draw), 0))
    /\ out' = <<>>
    /\ prevPass' = None
    /\ drawn' = Orders(sampler')
    /\ UNCHANGED ckVars
    /\ UNCHANGED histVars

\* sampler.soft_reset()
DoSoftReset ==
    /\ Does("soft_reset", Returned(soft_reset(sampler), 0))
    /\ out' = <<>>
    /\ prevPass' = Some([out |-> out, done |-> fails > 0])
    /\ UNCHANGED drawn
    /\ UNCHANGED ckVars
    /\ UNCHANGED histVars

Next == DoNext \/ DoReset \/ DoSoftReset

Spec == Init /\ [][Next]_vars

(***************************************************************************)
(* Checkpoints: the caller also takes a snapshot and loads it back.        *)
(***************************************************************************)
\* next(sampler)
CkNext ==
    /\ MayCallNext
    /\ LET r == next(sampler) IN
       /\ Does("next", r)
       /\ replay' = IF replaying /\ r.exc = "" THEN Append(replay, r.item) ELSE replay
    /\ UNCHANGED <<drawn, saved, expected, replaying>>
    /\ UNCHANGED passVars
    /\ UNCHANGED histVars

\* sampler.reset()
CkReset ==
    /\ \E draw \in Draws(sampler) : Does("reset", Returned(reset(sampler, draw), 0))
    /\ drawn' = Orders(sampler')
    /\ replaying' = FALSE
    /\ replay' = <<>>
    /\ UNCHANGED <<saved, expected>>
    /\ UNCHANGED passVars
    /\ UNCHANGED histVars

\* sampler.soft_reset()
CkSoftReset ==
    /\ Does("soft_reset", Returned(soft_reset(sampler), 0))
    /\ replaying' = FALSE
    /\ replay' = <<>>
    /\ UNCHANGED <<drawn, saved, expected>>
    /\ UNCHANGED passVars
    /\ UNCHANGED histVars

\* saved = sampler.state_dict()
CkStateDict ==
    /\ saved' = Some(state_dict(sampler))
    /\ expected' = Drain(sampler)
    /\ replaying' = FALSE
    /\ replay' = <<>>
    /\ UNCHANGED <<sampler, last, fails, drawn>>
    /\ UNCHANGED passVars
    /\ UNCHANGED histVars

\* sampler.load_state_dict(saved)
CkLoadStateDict ==
    /\ ~IsNone(saved)
    /\ LET r == load_state_dict(sampler, Val(saved)) IN
       /\ Does("load_state_dict", r)
       /\ replaying' = (r.exc = "")
    /\ drawn' = Orders(sampler')
    /\ replay' = <<>>
    /\ UNCHANGED <<saved, expected>>
    /\ UNCHANGED passVars
    /\ UNCHANGED histVars

\* the MultiSamplers that are checkpointed
CkMultis ==
    LET RECURSIVE Total(_, _)
        Total(c, i) == IF i = 0 THEN 0 ELSE len(c[i]) + Total(c, i - 1)
    IN  {m \in Multis : Total(m.samplers, Len(m.samplers)) <= MaxTotalLen}

InitCheckpoint ==
    /\ sampler \in Leaves(MaxLen) \cup CkMultis
    /\ InitHistory

NextCheckpoint == CkNext \/ CkReset \/ CkSoftReset \/ CkStateDict \/ CkLoadStateDict

SpecCheckpoint == InitCheckpoint /\ [][NextCheckpoint]_vars

(***************************************************************************)
(* Restoring a batch sampler from the snapshot of another run, whose batch *)
(* list may have had another size.                                         *)
(***************************************************************************)
\* s after k calls of __next__
RECURSIVE AdvanceTo(_, _)
AdvanceTo(s, k) == IF k = 0 THEN s ELSE AdvanceTo(next(s).s, k - 1)

\* the snapshots a PreGeneratedBatchSampler of another run can have saved:
\* any batch count up to MaxLen, shuffled or not, at any position of a pass
DonorSnapshots ==
    UNION {{state_dict(AdvanceTo(t, k)) : k \in 0..len(t)} : t \in BatchLeaves(MaxLen)}

InitResize ==
    /\ sampler \in BatchLeaves(MaxLen)
    /\ InitHistory

\* sampler.load_state_dict(d), d saved by another run (kept in `saved`)
RsLoadStateDict ==
    /\ \E d \in DonorSnapshots :
          /\ Does("load_state_dict", load_state_dict(sampler, d))
          /\ saved' = Some(d)
    /\ drawn' = Orders(sampler')
    /\ replaying' = FALSE
    /\ replay' = <<>>
    /\ UNCHANGED expected
    /\ UNCHANGED passVars
    /\ UNCHANGED histVars

NextResize == CkNext \/ CkReset \/ CkSoftReset \/ RsLoadStateDict

SpecResize == InitResize /\ [][NextResize]_vars

(***************************************************************************)
(* Resuming a run: the sampler is restored from the snapshot the sampler   *)
(* of an earlier run saved, intact or with a part of it missing.           *)
(***************************************************************************)
\* t was constructed the way s was: the same class and, for a MultiSampler,
\* children of the same classes and lengths
SameConstruction(s, t) ==
    /\ t.kind = s.kind
    /\ s.kind = "multi" =>
          /\ Len(t.samplers) = Len(s.samplers)
          /\ \A i \in 1..Len(s.samplers) :
                /\ t.samplers[i].kind = s.samplers[i].kind
                /\ len(t.samplers[i]) = len(s.samplers[i])

\* the samplers of an earlier run whose snapshot may be handed to s: any
\* sampler constructed the way s was, at any position of its first pass
Donors(s) ==
    UNION {{AdvanceTo(t, k) : k \in 0..len(t)}
              : t \in {u \in Leaves(MaxLen) \cup CkMultis : SameConstruction(s, u)}}

\* the dict d without one key
Without(d, key) == [k \in DOMAIN d \ {key} |-> d[k]]

\* the snapshot d with a part missing: one key, the last child snapshot, or
\* one key of a child snapshot
Damaged(d) ==
    {Without(d, k) : k \in DOMAIN d}
    \cup IF "samplers" \in DOMAIN d /\ Len(d.samplers) >= 1
         THEN {[d EXCEPT !.samplers = SubSeq(d.samplers, 1, Len(d.samplers) - 1)]}
              \cup UNION {{[d EXCEPT !.samplers[i] = Without(d.samplers[i], k)]
                               : k \in DOMAIN d.samplers[i]}
                             : i \in 1..Len(d.samplers)}
         ELSE {}

IsLeaf(s) == s.kind \in {"seq", "rnd", "pgb"}

\* what a stand-alone sampler iterates by: no order, an order that is the
\* list order, or another order
OrderHeld(s) ==
    IF IsNone(Orders(s)) THEN "none"
    ELSE IF Val(Orders(s)) = Iota(Len(Val(Orders(s)))) THEN "list order"
    ELSE "other order"

\* sampler.load_state_dict(t.state_dict()), t a sampler of an earlier run;
\* a pass is resumed once
RestoreFrom ==
    /\ IsNone(saved)
    /\ \E t \in Donors(sampler) :
          LET d == state_dict(t)
              r == load_state_dict(sampler, d)
          IN  /\ Does("load_state_dict", r)
              /\ saved' = Some(d)
              /\ expected' = Drain(t)
              /\ donor' = Some([obj |-> t, fresh |-> last.op = "__init__",
                                was |-> IF IsLeaf(sampler) THEN OrderHeld(sampler)
                                        ELSE "none"])
              /\ replaying' = (r.exc = "")
    /\ drawn' = Orders(sampler')
    /\ replay' = <<>>
    /\ UNCHANGED <<built, savedOut>>
    /\ UNCHANGED passVars

\* sampler.load_state_dict(d), d a snapshot of an earlier run that lost a part
RestoreDamaged ==
    /\ IsNone(saved)
    /\ \E t \in Donors(sampler) : \E d \in Damaged(state_dict(t)) :
          /\ Does("load_state_dict", load_state_dict(sampler, d))
          /\ saved' = Some(d)
    /\ drawn' = Orders(sampler')
    /\ expected' = <<>>
    /\ donor' = None
    /\ replaying' = FALSE
    /\ replay' = <<>>
    /\ UNCHANGED <<built, savedOut>>
    /\ UNCHANGED passVars

\* the caller drops the snapshot it resumed from when it starts a new pass
Forget ==
    /\ saved' = None
    /\ expected' = <<>>
    /\ donor' = None
    /\ replaying' = FALSE
    /\ replay' = <<>>

\* sampler.reset()
RestoreReset ==
    /\ \E draw \in Draws(sampler) : Does("reset", Returned(reset(sampler, draw), 0))
    /\ drawn' = Orders(sampler')
    /\ Forget
    /\ UNCHANGED <<built, savedOut>>
    /\ UNCHANGED passVars

\* sampler.soft_reset()
RestoreSoftReset ==
    /\ Does("soft_reset", Returned(soft_reset(sampler), 0))
    /\ Forget
    /\ UNCHANGED <<drawn, built, savedOut>>
    /\ UNCHANGED passVars

\* a stand-alone sampler resumed from an intact snapshot
InitRestore ==
    /\ sampler \in Leaves(MaxLen)
    /\ InitHistory

NextRestore == CkNext \/ RestoreReset \/ RestoreSoftReset \/ RestoreFrom

SpecRestore == InitRestore /\ [][NextRestore]_vars

\* any sampler resumed from a snapshot, intact or not
InitDamaged ==
    /\ sampler \in Leaves(MaxLen) \cup CkMultis
    /\ InitHistory

NextDamaged ==
    CkNext \/ RestoreReset \/ RestoreSoftReset \/ RestoreFrom \/ RestoreDamaged

SpecDamaged == InitDamaged /\ [][NextDamaged]_vars

(***************************************************************************)
(* Batching: the caller turns an index sampler into a                      *)
(* StatefulBatchSampler and goes on with that.                             *)
(***************************************************************************)
\* mutant: hands BatchSampler drop_last = False whatever drop_incomplete is
StatefulBatchSamplerKeepsLast(s, batch_size, shuffle_batches, drop_incomplete, p) ==
    PreGeneratedBatchSampler(BatchSamplerBatches(Drain(s), batch_size, FALSE),
                             shuffle_batches, p)

\* StatefulBatchSampler(sampler, batch_size, shuffle_batches, drop_incomplete):
\* BatchSampler iterates the sampler object as it is (__iter__ returns self)
\* until __next__ raises; p is the permutation the new sampler draws
StatefulBatchSampler(s, batch_size, shuffle_batches, drop_incomplete, p) ==
    PreGeneratedBatchSampler(BatchSamplerBatches(Drain(s), batch_size, drop_incomplete),
                             shuffle_batches, p)

InitBatch ==
    /\ sampler \in IndexLeaves(MaxLen)
    /\ InitHistory

\* sampler = StatefulBatchSampler(sampler, b, shuffle, drop)
DoBatch ==
    /\ sampler.kind \in {"seq", "rnd"}
    /\ \E b \in 1..BatchSize, shuffle \in BOOLEAN, drop \in BOOLEAN :
          \E p \in Draws(StatefulBatchSampler(sampler, b, shuffle, drop, <<>>)) :
              /\ sampler' = StatefulBatchSampler(sampler, b, shuffle, drop, p)
              /\ built' = Some([sampler |-> sampler, batch_size |-> b,
                                drop_incomplete |-> drop])
    /\ last' = [op |-> "__init__", exc |-> "", before |-> -1]
    /\ fails' = 0
    /\ out' = <<>>
    /\ prevPass' = None
    /\ drawn' = Orders(sampler')
    /\ UNCHANGED <<donor, savedOut>>
    /\ UNCHANGED ckVars

NextBatch == DoNext \/ DoReset \/ DoSoftReset \/ DoBatch

SpecBatch == InitBatch /\ [][NextBatch]_vars

(***************************************************************************)
(* A MultiSampler driven through passes, snapshots of its own state and    *)
(* restores of them; `out` follows the pass the sampler is in.             *)
(***************************************************************************)
InitCounter ==
    /\ sampler \in CkMultis
    /\ InitHistory

\* sampler.reset()
CounterReset ==
    /\ \E draw \in Draws(sampler) : Does("reset", Returned(reset(sampler, draw), 0))
    /\ out' = <<>>
    /\ drawn' = Orders(sampler')
    /\ replaying' = FALSE
    /\ UNCHANGED <<prevPass, saved, expected, replay>>
    /\ UNCHANGED histVars

\* sampler.soft_reset()
CounterSoftReset ==
    /\ Does("soft_reset", Returned(soft_reset(sampler), 0))
    /\ out' = <<>>
    /\ replaying' = FALSE
    /\ UNCHANGED <<prevPass, drawn, saved, expected, replay>>
    /\ UNCHANGED histVars

\* saved = sampler.state_dict()
CounterStateDict ==
    /\ saved' = Some(state_dict(sampler))
    /\ savedOut' = out
    /\ UNCHANGED <<sampler, last, fails, drawn, expected, replaying, replay, donor, built>>
    /\ UNCHANGED passVars

\* sampler.load_state_dict(saved): the pass `saved` was taken in goes on
CounterLoadStateDict ==
    /\ ~IsNone(saved)
    /\ Does("load_state_dict", load_state_dict(sampler, Val(saved)))
    /\ out' = savedOut
    /\ drawn' = Orders(sampler')
    /\ replaying' = TRUE
    /\ UNCHANGED <<prevPass, saved, expected, replay>>
    /\ UNCHANGED histVars

NextCounter ==
    DoNext \/ CounterReset \/ CounterSoftReset \/ CounterStateDict \/ CounterLoadStateDict

SpecCounter == InitCounter /\ [][NextCounter]_vars

(***************************************************************************)
(* Properties.                                                             *)
(***************************************************************************)
IsPrefix(a, b) == Len(a) <= Len(b) /\ SubSeq(b, 1, Len(a)) = a

\* the sampler itself and, for a MultiSampler, its children
Objects(s) ==
    IF s.kind = "multi" THEN {s} \cup {s.samplers[i] : i \in 1..Len(s.samplers)}
    ELSE {s}

\* the item a leaf sampler yields at position p (0-based) of its own order
ItemAt(s, p) ==
    CASE s.kind = "seq" -> p
      [] s.kind = "rnd" -> s.order[p + 1]
      [] s.kind = "pgb" ->
            IF s.shuffle THEN s.batches[Val(s.batch_order)[p + 1] + 1]
            ELSE s.batches[p + 1]

\* C1: Checkpoint round-trip.  After load_state_dict() of a snapshot taken
\* at some position (whatever was called in between), the items the
\* restored sampler returns are the items an uninterrupted run returned from
\* the position of the snapshot: always a prefix of them, and all of them
\* once __next__ raises.
CheckpointRoundTrip ==
    replaying =>
        /\ IsPrefix(replay, expected)
        /\ fails > 0 => replay = expected

\* a MultiSampler restored to a mid-pass snapshot under other orders than
\* the ones it held, then replayed to exhaustion
CheckpointRoundTripWitness ==
    /\ sampler.kind = "multi"
    /\ replaying
    /\ fails > 0
    /\ Val(saved).index >= 0
    /\ Len(replay) >= 1
    /\ \E i \in 1..Len(sampler.samplers) :
           sampler.samplers[i].kind \in {"rnd", "pgb"} /\ len(sampler.samplers[i]) >= 2

\* C2: Cursor invariant.  For the sampler and each of its children
\* -1 <= index < len, and a __next__ that returned raised index by one.
CursorInvariant ==
    /\ \A s \in Objects(sampler) : -1 <= s.index /\ s.index < len(s)
    /\ (last.op = "next" /\ last.exc = "") => sampler.index = last.before + 1

\* C3: Idempotent exhaustion of the leaf samplers.  A __next__ call that
\* follows a __next__ call that raised raises StopIteration too and leaves
\* the sampler (index and orders) as it was.
IdempotentExhaustion ==
    [][(IsLeaf(sampler) /\ fails > 0 /\ last'.op = "next")
           => (last'.exc = "StopIteration" /\ sampler' = sampler)]_vars

\* a non-empty shuffled sampler whose __next__ has raised twice in a row
IdempotentExhaustionWitness ==
    /\ sampler.kind \in {"rnd", "pgb"}
    /\ len(sampler) >= 2
    /\ fails >= 2
    /\ last.exc = "StopIteration"

\* C4: a StatefulSequentialSampler over N items returns 0, 1, ..., N-1 in
\* this order in a pass, and raises StopIteration exactly when N items have
\* been returned.
SequentialYieldsRange ==
    sampler.kind = "seq" =>
        /\ out = Iota(Len(out))
        /\ Len(out) <= sampler.length
        /\ fails > 0 => (Len(out) = sampler.length /\ last.exc = "StopIteration")
        /\ (last.op = "next" /\ last.exc = "StopIteration") => fails > 0

\* a pass over three items that ended, after an earlier pass
SequentialYieldsRangeWitness ==
    /\ sampler.kind = "seq"
    /\ sampler.length = 3
    /\ out = <<0, 1, 2>>
    /\ fails = 1
    /\ ~IsNone(prevPass)

\* C5: one pass of a StatefulRandomSampler over N items returns each of
\* 0..N-1 exactly once.
RandomPassIsPermutation ==
    sampler.kind = "rnd" =>
        /\ \A i \in 1..Len(out) : out[i] \in 0..(sampler.length - 1)
        /\ \A i, j \in 1..Len(out) : out[i] = out[j] => i = j
        /\ fails > 0 => Len(out) = sampler.length

\* a complete pass in an order that is not the sequential one
RandomPassIsPermutationWitness ==
    /\ sampler.kind = "rnd"
    /\ sampler.length = 3
    /\ out = <<2, 0, 1>>
    /\ fails > 0
    /\ last.exc = "StopIteration"

\* C6: soft_reset() replays.  soft_reset() puts every index at -1; only
\* reset() changes an order; the pass after a soft_reset() returns the items
\* of the pass before it (one is a prefix of the other, and they are equal
\* when both ran into StopIteration).
SoftResetReplays ==
    /\ Orders(sampler) = drawn
    /\ last.op = "soft_reset" => \A s \in Objects(sampler) : s.index = -1
    /\ ~IsNone(prevPass) =>
          /\ IsPrefix(out, Val(prevPass).out) \/ IsPrefix(Val(prevPass).out, out)
          /\ Val(prevPass).done => IsPrefix(out, Val(prevPass).out)
          /\ fails > 0 => IsPrefix(Val(prevPass).out, out)

\* a MultiSampler over shuffled children whose complete pass was replayed
\* completely
SoftResetReplaysWitness ==
    /\ sampler.kind = "multi"
    /\ \A i \in 1..Len(sampler.samplers) :
           sampler.samplers[i].kind \in {"rnd", "pgb"} /\ len(sampler.samplers[i]) >= 1
    /\ ~IsNone(prevPass)
    /\ Val(prevPass).done
    /\ fails > 0
    /\ Len(out) = 2
    /\ out[1] # out[2]

\* what a MultiSampler returns for the items its children contribute
Combined(s, items) == IF YieldsSequence(s.samplers[1]) THEN ZipLongest(items) ELSE items

OnlyPaceSetterEndsPass ==
    (sampler.kind = "multi" /\ last.op = "next" /\ last.exc = "StopIteration") =>
        LET pace == sampler.samplers[sampler.longest]
        IN  pace.index >= len(pace) - 1

\* the snapshot last loaded holds a batch order whose length is not the
\* number of batches of the sampler
Mismatched ==
    /\ ~IsNone(saved)
    /\ ~IsNone(Val(saved).batch_order)
    /\ Len(Val(Val(saved).batch_order)) # Len(sampler.batches)

\* C9: Resize-tolerant restore never reuses a mismatched order.
\* load_state_dict() of a snapshot whose batch order has another length
\* than the batch list raises nothing and leaves batch_order absent or of
\* exactly len(batches) entries, and no __next__ fails to index a batch.
ResizeNeverInstallsOrder ==
    /\ (last.op = "load_state_dict" /\ Mismatched) =>
          /\ last.exc = ""
          /\ \/ IsNone(sampler.batch_order)
             \/ Len(Val(sampler.batch_order)) = Len(sampler.batches)
    /\ last.op = "next" => last.exc \in {"", "StopIteration"}

\* C10: Cursor rescale on resize.  After load_state_dict() of a snapshot
\* whose batch order has length S into a sampler holding an order for its
\* C >= 1 batches, S # C, index = floor(saved index * C / S); a saved -1
\* stays -1.
CursorRescaledByFloor ==
    (/\ last.op = "load_state_dict"
     /\ last.exc = ""
     /\ Mismatched
     /\ Len(sampler.batches) >= 1
     /\ ~IsNone(sampler.batch_order)
     /\ Len(Val(sampler.batch_order)) = Len(sampler.batches)) =>
        LET S == Len(Val(Val(saved).batch_order))
            C == Len(sampler.batches)
        IN  /\ sampler.index = (Val(saved).index * C) \div S
            /\ Val(saved).index = -1 => sampler.index = -1

\* C11: StatefulRandomSampler.load_state_dict() of a snapshot whose order
\* has another length than the sampler is rejected with an error, and the
\* sampler never holds an order of another length than its own.
RndMismatchRejected ==
    sampler.kind = "rnd" =>
        /\ (/\ last.op = "load_state_dict"
            /\ "order" \in DOMAIN Val(saved)
            /\ Len(Val(saved).order) # sampler.length) => last.exc # ""
        /\ Len(sampler.order) = sampler.length

\* the two samplers were constructed over the same data: the same length,
\* or the same batch list
SameData(s, t) ==
    /\ t.kind = s.kind
    /\ s.kind = "rnd" => t.length = s.length
    /\ s.kind = "pgb" => t.batches = s.batches

\* C13: Restore onto a fresh instance.  A snapshot of a
\* PreGeneratedBatchSampler or StatefulRandomSampler at position k, loaded
\* into a freshly constructed sampler over the same batch list or length
\* (whatever its shuffle flag and the order it drew), takes index and order
\* from the snapshot, and the sampler then returns exactly the items the
\* original would have returned from position k.
RestoreOntoFresh ==
    (/\ sampler.kind \in {"rnd", "pgb"}
     /\ replaying
     /\ ~IsNone(donor)
     /\ Val(donor).fresh
     /\ SameData(sampler, Val(donor).obj)) =>
        /\ IsPrefix(replay, expected)
        /\ fails > 0 => replay = expected
        /\ last.op = "load_state_dict" =>
              /\ sampler.index = Val(donor).obj.index
              /\ Orders(sampler) = Orders(Val(donor).obj)

\* a batch sampler constructed unshuffled, restored to a mid-pass snapshot
\* of a shuffled one and iterated to the end of the pass
RestoreOntoFreshWitness ==
    /\ sampler.kind = "pgb"
    /\ replaying
    /\ ~IsNone(donor)
    /\ Val(donor).fresh
    /\ SameData(sampler, Val(donor).obj)
    /\ Val(donor).was = "none"
    /\ Val(donor).obj.index >= 0
    /\ ~IsNone(Val(donor).obj.batch_order)
    /\ Val(Val(donor).obj.batch_order) # Iota(Len(sampler.batches))
    /\ Len(replay) >= 2
    /\ fails > 0

\* the concatenation of the batches
RECURSIVE Flatten(_)
Flatten(batches) ==
    IF batches = <<>> THEN <<>> ELSE Head(batches) \o Flatten(Tail(batches))

\* C12: Batch grouping by StatefulBatchSampler.  For an index sampler that
\* yields n items and batch_size b >= 1 the batches are consecutive groups
\* of the output in order, each of b items except possibly the last; with
\* drop_incomplete false there are ceil(n/b) batches and they concatenate to
\* the whole output, with drop_incomplete true floor(n/b), all of size b.
BatchGrouping ==
    ~IsNone(built) =>
        LET items == Drain(Val(built).sampler)
            n == Len(items)
            b == Val(built).batch_size
            drop == Val(built).drop_incomplete
            batches == sampler.batches
            count == Len(batches)
        IN  /\ IsPrefix(Flatten(batches), items)
            /\ \A j \in 1..(count - 1) : Len(batches[j]) = b
            /\ count >= 1 => (Len(batches[count]) >= 1 /\ Len(batches[count]) <= b)
            /\ ~drop => (/\ count * b >= n
                         /\ (count - 1) * b < n \/ (count = 0 /\ n = 0)
                         /\ Flatten(batches) = items)
            /\ drop => (/\ count * b <= n
                        /\ (count + 1) * b > n
                        /\ \A j \in 1..count : Len(batches[j]) = b)

\* three items in a drawn order grouped by two: sizes [2, 1], the short
\* batch kept
BatchGroupingWitness ==
    /\ ~IsNone(built)
    /\ Val(built).sampler.kind = "rnd"
    /\ Val(built).sampler.index = -1
    /\ Val(built).sampler.order = <<2, 0, 1>>
    /\ Val(built).batch_size = 2
    /\ ~Val(built).drop_incomplete
    /\ sampler.batches = <<<<2, 0>>, <<1>>>>

\* C17: StatefulBatchSampler drains the index sampler over one fresh,
\* complete pass.  Whatever state the index sampler is in at construction,
\* the batches built with drop_incomplete false hold every one of its
\* len(sampler) items exactly once.
BatchesHoldWholePass ==
    (~IsNone(built) /\ ~Val(built).drop_incomplete) =>
        LET all == Flatten(sampler.batches)
            n == len(Val(built).sampler)
        IN  /\ Len(all) = n
            /\ {all[i] : i \in 1..Len(all)} = 0..(n - 1)

\* C14: MultiSampler does not advance past exhaustion.  A
\* MultiSampler.__next__ call that raises StopIteration leaves the
\* MultiSampler's index and the index of every child as they were.
MultiStaysExhausted ==
    [][(sampler.kind = "multi" /\ last'.op = "next" /\ last'.exc = "StopIteration")
           => /\ sampler'.index = sampler.index
              /\ \A i \in 1..Len(sampler.samplers) :
                    sampler'.samplers[i].index = sampler.samplers[i].index]_vars

\* C15: Restore is atomic.  A load_state_dict() call that raises leaves the
\* sampler (index, order or batch_order, and every child) exactly as it was
\* before the call.
RestoreIsAtomic ==
    [][(last'.op = "load_state_dict" /\ last'.exc # "") => sampler' = sampler]_vars

\* C16: MultiSampler fan-out reaches every child.  After reset() or
\* soft_reset() the MultiSampler's index and every child's index are -1;
\* after a load_state_dict(s) that returned, its index is s['index'], s
\* holds a snapshot for every child, and child i is in the state
\* s['samplers'][i] describes.
MultiFanOut ==
    sampler.kind = "multi" =>
        /\ last.op \in {"reset", "soft_reset"} =>
              \A s \in Objects(sampler) : s.index = -1
        /\ (last.op = "load_state_dict" /\ last.exc = "") =>
              /\ sampler.index = Val(saved).index
              /\ Len(Val(saved).samplers) >= Len(sampler.samplers)
              /\ \A i \in 1..Len(sampler.samplers) :
                    state_dict(sampler.samplers[i]) = Val(saved).samplers[i]

\* C18: after every PreGeneratedBatchSampler.load_state_dict, shuffle is
\* true if and only if a non-empty batch order is present; __next__ then
\* returns batches[batch_order[index]] when an order is present and
\* batches[index] otherwise; an unshuffled snapshot leaves the sampler
\* without an order, at the saved index.  Stated for the samplers that have
\* batches.
ShuffleIffOrderNonEmpty ==
    (sampler.kind = "pgb" /\ Len(sampler.batches) >= 1) =>
        /\ last.op = "load_state_dict" =>
              sampler.shuffle = (/\ ~IsNone(sampler.batch_order)
                                 /\ Len(Val(sampler.batch_order)) > 0)
        /\ (last.op = "load_state_dict" /\ IsNone(Val(saved).batch_order)) =>
              /\ IsNone(sampler.batch_order)
              /\ ~sampler.shuffle
              /\ sampler.index = Val(saved).index
        /\ (replaying /\ last.op = "next" /\ last.exc = "") =>
              replay[Len(replay)] =
                  IF IsNone(sampler.batch_order)
                  THEN PyGet(sampler.batches, sampler.index).v
                  ELSE PyGet(sampler.batches,
                             PyGet(Val(sampler.batch_order), sampler.index).v).v

\* C19: MultiSampler combine step.  A MultiSampler.__next__ that returns
\* has taken exactly one item from every child, its next item or its first
\* item after a wrap-around, and returns the list of these items in child
\* order when the children yield numbers; when they yield batches, the
\* transposition: entry j is the tuple of the j-th elements of the
\* children's batches, there are as many entries as the longest batch has
\* elements, and the fill value stands in for a batch that is too short.
MultiCombines ==
    [][(sampler.kind = "multi" /\ last'.op = "next" /\ last'.exc = "") =>
          LET n == Len(sampler.samplers)
              before(i) == sampler.samplers[i]
              after(i) == sampler'.samplers[i]
              item(i) == ItemAt(after(i), after(i).index)
              result == out'[Len(out')]
          IN  /\ Len(out') = Len(out) + 1
              /\ \A i \in 1..n :
                    \/ after(i) = [before(i) EXCEPT !.index = before(i).index + 1]
                    \/ /\ before(i).index >= len(before(i)) - 1
                       /\ after(i) = [before(i) EXCEPT !.index = 0]
              /\ IF before(1).kind \in {"seq", "rnd"}
                 THEN result = [i \in 1..n |-> item(i)]
                 ELSE /\ \A i \in 1..n : Len(item(i)) <= Len(result)
                      /\ \E i \in 1..n : Len(item(i)) = Len(result)
                      /\ \A j \in 1..Len(result) :
                            /\ Len(result[j]) = n
                            /\ \A i \in 1..n :
                                  result[j][i] = IF j <= Len(item(i)) THEN item(i)[j]
                                                 ELSE FillValue]_vars

\* two batch samplers side by side: the first combined item was padded for
\* the shorter batch, the second took the first batch of the wrapped child
MultiCombinesWitness ==
    /\ sampler.kind = "multi"
    /\ Len(sampler.samplers) = 2
    /\ sampler.samplers[1].kind = "pgb"
    /\ last.op = "next"
    /\ last.exc = ""
    /\ Len(out) = 2
    /\ \E j \in 1..Len(out[1]) : out[1][j][2] = FillValue
    /\ sampler.index = 1
    /\ sampler.samplers[2].index = 0

\* C20: MultiSampler's counter tracks its pace-setter.  After every
\* __next__ that returned, the MultiSampler's index equals the pace-setter
\* child's index and the number of items returned in the current pass minus
\* one; the pace-setter is the first child of maximal length.
CounterTracksPaceSetter ==
    (sampler.kind = "multi" /\ last.op = "next" /\ last.exc = "") =>
        LET n == Len(sampler.samplers)
            pace == sampler.samplers[sampler.longest]
        IN  /\ sampler.index = pace.index
            /\ sampler.index = Len(out) - 1
            /\ \A i \in 1..n : len(sampler.samplers[i]) <= len(pace)
            /\ \A i \in 1..(sampler.longest - 1) : len(sampler.samplers[i]) < len(pace)

\* a pass resumed from a mid-pass snapshot and advanced: the pace-setter
\* is the second child, the first one has wrapped around
CounterTracksPaceSetterWitness ==
    /\ sampler.kind = "multi"
    /\ Len(sampler.samplers) = 2
    /\ sampler.longest = 2
    /\ replaying
    /\ Len(savedOut) = 1
    /\ last.op = "next"
    /\ last.exc = ""
    /\ sampler.index = 1
    /\ sampler.samplers[1].index = 0

=============================================================================
